---- MODULE Spec2Model ----
(***************************************************************************)
(* A model of mc-sign-extractor (src/src/main.rs).                        *)
(*                                                                         *)
(* The driver (main) learns the world version, hands one work unit per     *)
(* region file to a thread pool, collects the sign and book lists the      *)
(* units send over two channels, sorts them and writes two reports.  A     *)
(* work unit (extract_signs_from_mca) walks the location entries of one    *)
(* region file and extracts signs and books from each chunk under the      *)
(* adapter the version selects.                                            *)
(*                                                                         *)
(* Four specifications share the definitions below:                        *)
(*   Spec        the driver with its work units and the reporter           *)
(*   SpecRegion  one work unit, stepping through the location entries      *)
(*   SpecChunk   the per-chunk extraction applied to one chunk payload     *)
(*   SpecPage    the book page normaliser applied to one page              *)
(*                                                                         *)
(* Strings the code inspects (ids, pages) are sequences of characters.     *)
(* Option<T> is a sequence of length 0 (None) or 1 (Some).                 *)
(***************************************************************************)
EXTENDS Integers, Sequences, FiniteSets

VARIABLES
    version,     \* the version descriptor: [id, name]
    save,        \* the region directory: a sequence of region files
    pc,          \* where main is
    nsubmitted,  \* number_of_files
    unit,        \* per region file: its work unit's progress
    chSigns,     \* every message sent on tx, in send order
    chBooks,     \* every message sent on tx_books, in send order
    nrecv,       \* messages main has taken from the channel it is draining
    nwritten,    \* records main has written to the report it is writing
    signs,       \* main's signs vector
    books,       \* main's books vector
    signsFile,   \* lines written to signs-<save>.txt
    booksFile,   \* lines written to books-<save>.txt
    wpc,         \* one work unit: where extract_signs_from_mca is
    wi,          \* one work unit: location entries visited
    wsigns,      \* one work unit: its signs vector
    wbooks,      \* one work unit: its books vector
    wlast,       \* one work unit: what the last visited entry led to
    wseen,       \* one work unit: the location entries read so far, in order
    wfile,       \* one work unit: the file's name and whether it is empty
    chunk,       \* SpecChunk: the inflated chunk payload
    cres,        \* SpecChunk: what the extraction made of it
    page,        \* SpecPage: a book page
    body         \* SpecPage: the body written for it

vars == <<version, save, pc, nsubmitted, unit, chSigns, chBooks, nrecv,
          nwritten, signs, books, signsFile, booksFile, wpc, wi, wsigns, wbooks, wlast,
          wseen, wfile, chunk,
          cres, page, body>>

driverVars == <<save, pc, nsubmitted, unit, chSigns, chBooks, nrecv, nwritten,
                signs, books, signsFile, booksFile>>
workerVars == <<wpc, wi, wsigns, wbooks, wlast, wseen, wfile>>
chunkVars == <<chunk, cres>>
pageVars == <<page, body>>

----------------------------------------------------------------------------
(* Bounds of the model.                                                    *)

MaxFiles == 2
NumThreads == 2
MaxEntries == 3
MaxItems == 2
MaxHalf == 3
PosDen == 2
MaxPageLen == 4

----------------------------------------------------------------------------
(* Option, strings.                                                        *)

None == <<>>
Some(v) == <<v>>
IsSome(o) == Len(o) = 1
Unwrap(o) == o[1]

SeqsUpTo(S, n) == UNION {[1..k -> S] : k \in 0..n}

\* the capital letters of ASCII and Latin-1, and their small letters
Uppers == <<"A","B","C","D","E","F","G","H","I","J","K","L","M",
            "N","O","P","Q","R","S","T","U","V","W","X","Y","Z",
            "À","Á","Â","Ã","Ä","Å","Æ","Ç","È","É","Ê","Ë","Ì","Í","Î","Ï",
            "Ð","Ñ","Ò","Ó","Ô","Õ","Ö","Ø","Ù","Ú","Û","Ü","Ý","Þ">>
Lowers == <<"a","b","c","d","e","f","g","h","i","j","k","l","m",
            "n","o","p","q","r","s","t","u","v","w","x","y","z",
            "à","á","â","ã","ä","å","æ","ç","è","é","ê","ë","ì","í","î","ï",
            "ð","ñ","ò","ó","ô","õ","ö","ø","ù","ú","û","ü","ý","þ">>

\* characters beyond Latin-1 are written by their code point
KelvinSign == "U+212A"
CapitalIDot == "U+0130"
CombiningDot == "U+0307"
CapitalSigma == "U+03A3"
SmallSigma == "U+03C3"
FinalSigma == "U+03C2"

\* The characters of the model that char::to_lowercase changes, and what it
\* yields for each (one character, or two for U+0130).
UpperSet ==
    {Uppers[i] : i \in 1..Len(Uppers)} \cup {KelvinSign, CapitalIDot, CapitalSigma}

LowerOf ==
    [c \in UpperSet |->
        IF c = KelvinSign THEN <<"k">>
        ELSE IF c = CapitalIDot THEN <<"i", CombiningDot>>
        ELSE IF c = CapitalSigma THEN <<SmallSigma>>
        ELSE <<Lowers[CHOOSE i \in 1..Len(Uppers) : Uppers[i] = c]>>]

\* char::to_lowercase
LowerChar(c) == IF c \in UpperSet THEN LowerOf[c] ELSE <<c>>

\* the characters of the model with the property Cased
Cased ==
    UpperSet
    \cup {Lowers[i] : i \in 1..Len(Lowers)}
    \cup {"ª", "µ", "º", "ß", "ÿ", SmallSigma, FinalSigma}

\* the characters of ASCII and Latin-1 with the property Case_Ignorable, and
\* U+0307: ' . : ^ U+0060 (grave accent, written by its code point), U+00A8,
\* U+00AD (soft hyphen), U+00AF, U+00B4, U+00B7, U+00B8
CaseIgnorable ==
    {"'", ".", ":", "^", "U+0060", "¨", "­", "¯", "´", "·", "¸", CombiningDot}

\* a capital sigma at s[i] ends a word: a cased letter comes before it and
\* none comes after it, case-ignorable characters apart
IsWordFinal(s, i) ==
    /\ \E j \in 1..(i - 1) :
          /\ s[j] \notin CaseIgnorable
          /\ s[j] \in Cased
          /\ \A k \in (j + 1)..(i - 1) : s[k] \in CaseIgnorable
    /\ ~\E j \in (i + 1)..Len(s) :
          /\ s[j] \notin CaseIgnorable
          /\ s[j] \in Cased
          /\ \A k \in (i + 1)..(j - 1) : s[k] \in CaseIgnorable

RECURSIVE LowerFrom(_, _)
LowerFrom(s, i) ==
    IF i > Len(s) THEN <<>>
    ELSE (IF s[i] = CapitalSigma
          THEN <<IF IsWordFinal(s, i) THEN FinalSigma ELSE SmallSigma>>
          ELSE LowerChar(s[i]))
         \o LowerFrom(s, i + 1)

\* str::to_lowercase: a string without a character that changes is kept
ToLowercase(s) ==
    IF \A i \in 1..Len(s) : s[i] \notin UpperSet THEN s ELSE LowerFrom(s, 1)

EndsWith(s, suffix) ==
    /\ Len(s) >= Len(suffix)
    /\ SubSeq(s, Len(s) - Len(suffix) + 1, Len(s)) = suffix

StrSign == <<"s","i","g","n">>
StrBook == <<"b","o","o","k">>
StrColonBook == <<":","b","o","o","k">>
StrEnchantedBook == <<"e","n","c","h","a","n","t","e","d","_","b","o","o","k">>
StrOld == "old"
Section == "§"

----------------------------------------------------------------------------
(* The adapter a version descriptor selects.                               *)

Id1_18 == 2730
Id1_17 == 2681

ChosenAdapterOffByOne(v) ==
    IF v.id >= Id1_18 /\ v.name # StrOld THEN "Chunk1_18"
    ELSE IF v.id > Id1_17 /\ v.name # StrOld THEN "Chunk1_17"
    ELSE "Chunk"

ChosenAdapter(v) ==
    IF v.id > Id1_18 /\ v.name # StrOld THEN "Chunk1_18"
    ELSE IF v.id > Id1_17 /\ v.name # StrOld THEN "Chunk1_17"
    ELSE "Chunk"

----------------------------------------------------------------------------
(* Records of the data model.                                              *)

Book(pages, title, author) ==
    [pages |-> pages, title |-> title, author |-> author]

Item(id, tag) == [id |-> id, tag |-> tag]

TileEntity(id, x, y, z, t1, t2, t3, t4, items) ==
    [id |-> id, x |-> x, y |-> y, z |-> z,
     text1 |-> t1, text2 |-> t2, text3 |-> t3, text4 |-> t4, items |-> items]

Entity(pos, item) == [pos |-> pos, item |-> item]

BookWithPos(book, x, y, z) == [book |-> book, x |-> x, y |-> y, z |-> z]

\* `f as i32` for the f64 h / PosDen: towards zero, saturating
I32Max == 2147483647
I32Min == -I32Max - 1

AsI32(h) ==
    LET t == IF h >= 0 THEN h \div PosDen ELSE -((-h) \div PosDen)
    IN  IF t > I32Max THEN I32Max ELSE IF t < I32Min THEN I32Min ELSE t

----------------------------------------------------------------------------
(* The item predicates.                                                    *)

IsBookItem(id) ==
    /\ EndsWith(ToLowercase(id), StrBook)
    /\ ~EndsWith(ToLowercase(id), StrEnchantedBook)
    /\ ~EndsWith(ToLowercase(id), StrColonBook)

IsBookItemEntity(id) ==
    /\ EndsWith(ToLowercase(id), StrBook)
    /\ ~EndsWith(ToLowercase(id), StrEnchantedBook)

IsSignModern(id) == EndsWith(id, StrSign)

IsSignLegacy(id) == EndsWith(ToLowercase(id), StrSign)

----------------------------------------------------------------------------
(* Extraction from one decoded chunk.  A result is the two vectors and the *)
(* panic that ended the walk ("" when none did).                           *)

NoPanic == ""
Extracted(s, b, p) == [signs |-> s, books |-> b, panic |-> p]

RECURSIVE ModernItems(_, _, _)
ModernItems(items, be, acc) ==
    IF items = <<>> THEN Extracted(<<>>, acc, NoPanic)
    ELSE LET item == Head(items) IN
         IF IsBookItem(item.id)
         THEN IF IsSome(item.tag)
              THEN ModernItems(Tail(items), be,
                       Append(acc, BookWithPos(Unwrap(item.tag), be.x, be.y, be.z)))
              ELSE Extracted(<<>>, acc, "unwrap on None: item.tag")
         ELSE ModernItems(Tail(items), be, acc)

RECURSIVE ModernBlockEntities(_, _, _)
ModernBlockEntities(bes, s, b) ==
    IF bes = <<>> THEN Extracted(s, b, NoPanic)
    ELSE LET be == Head(bes) IN
         IF IsSignModern(be.id)
         THEN ModernBlockEntities(Tail(bes), Append(s, be), b)
         ELSE IF IsSome(be.items)
         THEN LET r == ModernItems(Unwrap(be.items), be, b) IN
              IF r.panic # NoPanic THEN Extracted(s, r.books, r.panic)
              ELSE ModernBlockEntities(Tail(bes), s, r.books)
         ELSE ModernBlockEntities(Tail(bes), s, b)

RECURSIVE LegacyItems(_, _, _)
LegacyItems(items, te, acc) ==
    IF items = <<>> THEN acc
    ELSE LET item == Head(items) IN
         IF /\ IsBookItem(item.id)
            /\ IsSome(item.tag)
            /\ IsSome(Unwrap(item.tag).pages)
         THEN LegacyItems(Tail(items), te,
                  Append(acc, BookWithPos(Unwrap(item.tag), te.x, te.y, te.z)))
         ELSE LegacyItems(Tail(items), te, acc)

RECURSIVE LegacyTileEntities(_, _, _)
LegacyTileEntities(tes, s, b) ==
    IF tes = <<>> THEN Extracted(s, b, NoPanic)
    ELSE LET te == Head(tes) IN
         IF IsSignLegacy(te.id)
         THEN LegacyTileEntities(Tail(tes), Append(s, te), b)
         ELSE IF IsSome(te.items)
         THEN LegacyTileEntities(Tail(tes), s, LegacyItems(Unwrap(te.items), te, b))
         ELSE LegacyTileEntities(Tail(tes), s, b)

RECURSIVE LegacyEntities(_, _, _)
LegacyEntities(ents, s, b) ==
    IF ents = <<>> THEN Extracted(s, b, NoPanic)
    ELSE LET entity == Head(ents) IN
         IF /\ IsSome(entity.item)
            /\ IsBookItemEntity(Unwrap(entity.item).id)
            /\ IsSome(Unwrap(entity.item).tag)
            /\ IsSome(Unwrap(Unwrap(entity.item).tag).pages)
         THEN IF Len(entity.pos) < 3
              THEN Extracted(s, b, "index out of bounds: entity.pos")
              ELSE LegacyEntities(Tail(ents), s,
                       Append(b, BookWithPos(Unwrap(Unwrap(entity.item).tag),
                                             AsI32(entity.pos[1]),
                                             AsI32(entity.pos[2]),
                                             AsI32(entity.pos[3]))))
         ELSE LegacyEntities(Tail(ents), s, b)

----------------------------------------------------------------------------
(* Decoding a chunk payload into an adapter's schema.  A payload is None   *)
(* (bytes that are no NBT) or a compound with the optional fields          *)
(*   Level: [TileEntities, Entities], block_entities.                      *)
(* A decode yields None when a field the schema requires is missing.       *)

Compound(level, bes) == [Level |-> level, block_entities |-> bes]
LevelOf(tes, ents) == [TileEntities |-> tes, Entities |-> ents]

DecodeChunk1_18(buf) ==
    IF IsSome(buf) /\ IsSome(Unwrap(buf).block_entities)
    THEN Some(Unwrap(Unwrap(buf).block_entities))
    ELSE None

DecodeChunk1_17(buf) ==
    IF /\ IsSome(buf)
       /\ IsSome(Unwrap(buf).Level)
       /\ IsSome(Unwrap(Unwrap(buf).Level).TileEntities)
    THEN Some(Unwrap(Unwrap(Unwrap(buf).Level).TileEntities))
    ELSE None

DecodeChunk(buf) ==
    IF /\ IsSome(buf)
       /\ IsSome(Unwrap(buf).Level)
       /\ IsSome(Unwrap(Unwrap(buf).Level).TileEntities)
       /\ IsSome(Unwrap(Unwrap(buf).Level).Entities)
    THEN Some([tile_entities |-> Unwrap(Unwrap(Unwrap(buf).Level).TileEntities),
               entities |-> Unwrap(Unwrap(Unwrap(buf).Level).Entities)])
    ELSE None

\* What one chunk payload adds to (s, b): outcome "ok", "decode_error" (the
\* chunk is skipped) or "panic".
Outcome(o, a, r) ==
    [outcome |-> o, adapter |-> a, signs |-> r.signs, books |-> r.books,
     panic |-> r.panic]

ProcessChunk(v, buf, s, b) ==
    IF ChosenAdapter(v) = "Chunk1_18"
    THEN LET d == DecodeChunk1_18(buf) IN
         IF ~IsSome(d)
         THEN Outcome("decode_error", "Chunk1_18", Extracted(s, b, NoPanic))
         ELSE LET r == ModernBlockEntities(Unwrap(d), s, b) IN
              Outcome(IF r.panic = NoPanic THEN "ok" ELSE "panic", "Chunk1_18", r)
    ELSE IF ChosenAdapter(v) = "Chunk1_17"
    THEN LET d == DecodeChunk1_17(buf) IN
         IF ~IsSome(d)
         THEN Outcome("decode_error", "Chunk1_17", Extracted(s, b, NoPanic))
         ELSE LET r == ModernBlockEntities(Unwrap(d), s, b) IN
              Outcome(IF r.panic = NoPanic THEN "ok" ELSE "panic", "Chunk1_17", r)
    ELSE LET d == DecodeChunk(buf) IN
         IF ~IsSome(d)
         THEN Outcome("decode_error", "Chunk", Extracted(s, b, NoPanic))
         ELSE LET t == LegacyTileEntities(Unwrap(d).tile_entities, s, b)
                  r == LegacyEntities(Unwrap(d).entities, t.signs, t.books)
              IN  Outcome(IF r.panic = NoPanic THEN "ok" ELSE "panic", "Chunk", r)

----------------------------------------------------------------------------
(* One location entry of a region file, as the decoder meets it.           *)
(*   io          "ok", the read at which the file ends, or "length_zero"   *)
(*               for a chunk whose length field is 0                       *)
(*   sectors     the sector count of the location entry                    *)
(*   compression the compression byte                                      *)
(*   inflates    whether the payload is a zlib stream                      *)
(*   buf         the inflated payload                                      *)

Entry(io, sectors, compression, inflates, buf) ==
    [io |-> io, sectors |-> sectors, compression |-> compression,
     inflates |-> inflates, buf |-> buf]

Zlib == 2

Skipped(o, s, b) == Outcome(o, "none", Extracted(s, b, NoPanic))
Panicked(p, s, b) == Outcome("panic", "none", Extracted(s, b, p))

\* One iteration of the loop over (x, z).
ProcessEntry(v, e, s, b) ==
    IF e.io = "header_eof" THEN Panicked("failed to read header", s, b)
    ELSE IF e.sectors = 0 THEN Skipped("absent", s, b)
    ELSE IF e.io = "length_eof" THEN Panicked("failed to read length", s, b)
    ELSE IF e.io = "compression_eof"
    THEN Panicked("failed to read compression type", s, b)
    ELSE IF e.compression # Zlib THEN Skipped("unsupported_compression", s, b)
    ELSE IF e.io = "length_zero"
    THEN Panicked("length - 1 overflows, or failed to read chunk", s, b)
    ELSE IF e.io = "payload_eof" THEN Panicked("failed to read chunk", s, b)
    ELSE IF ~e.inflates THEN Panicked("unwrap on Err: read_to_end", s, b)
    ELSE ProcessChunk(v, e.buf, s, b)

----------------------------------------------------------------------------
(* The name of a region file.  A name is the characters of the directory   *)
(* entry's file name and whether its bytes are UTF-8.                      *)

FileName(utf8, chars) == [utf8 |-> utf8, chars |-> chars]

\* OsStr::to_str
ToStr(name) == IF name.utf8 THEN Some(name.chars) ELSE None

AsciiDigits == <<"0","1","2","3","4","5","6","7","8","9">>
AsciiDigitSet == {AsciiDigits[i] : i \in 1..Len(AsciiDigits)}
DigitValue == [c \in AsciiDigitSet |-> (CHOOSE i \in 1..Len(AsciiDigits) : AsciiDigits[i] = c) - 1]

\* \d of the pattern is any decimal digit of Unicode; of those beyond ASCII
\* the model has ARABIC-INDIC DIGIT THREE
ArabicIndicThree == "U+0663"
IsDigit(c) == c \in AsciiDigitSet \cup {ArabicIndicThree}

Radix == 10

\* the digits of s from s[i] on, added to acc with checked arithmetic
RECURSIVE ParseDigits(_, _, _, _)
ParseDigits(s, i, acc, neg) ==
    IF i > Len(s) THEN Some(acc)
    ELSE IF s[i] \notin AsciiDigitSet THEN None
    ELSE LET d == DigitValue[s[i]] IN
         IF neg
         THEN IF \/ acc < -(I32Max \div Radix)
                 \/ (acc = -(I32Max \div Radix) /\ d > (I32Max % Radix) + 1)
              THEN None
              ELSE ParseDigits(s, i + 1, acc * Radix - d, neg)
         ELSE IF \/ acc > I32Max \div Radix
                 \/ (acc = I32Max \div Radix /\ d > I32Max % Radix)
              THEN None
              ELSE ParseDigits(s, i + 1, acc * Radix + d, neg)

\* str::parse::<i32>: None stands for every ParseIntError
ParseI32(s) ==
    IF s = <<>> THEN None
    ELSE IF s[1] \in {"-", "+"}
    THEN IF Len(s) = 1 THEN None ELSE ParseDigits(s, 2, 0, s[1] = "-")
    ELSE ParseDigits(s, 1, 0, FALSE)

\* the literal lit stands in s at position i
LitAt(s, i, lit) ==
    /\ i + Len(lit) - 1 <= Len(s)
    /\ SubSeq(s, i, i + Len(lit) - 1) = lit

RECURSIVE DigitsEnd(_, _)
DigitsEnd(s, i) == IF i <= Len(s) /\ IsDigit(s[i]) THEN DigitsEnd(s, i + 1) ELSE i

\* -?\d+ matched at position i of s
NumberAt(s, i) ==
    LET d0 == IF i <= Len(s) /\ s[i] = "-" THEN i + 1 ELSE i
        d1 == DigitsEnd(s, d0)
    IN  [ok |-> d1 > d0, text |-> SubSeq(s, i, d1 - 1), next |-> d1]

\* the pattern r\.(-?\d+)\.(-?\d+)\.mca matched at position p of s
MatchAt(s, p) ==
    IF ~LitAt(s, p, <<"r", ".">>) THEN None
    ELSE LET n1 == NumberAt(s, p + 2) IN
         IF ~n1.ok \/ ~LitAt(s, n1.next, <<".">>) THEN None
         ELSE LET n2 == NumberAt(s, n1.next + 1) IN
              IF ~n2.ok \/ ~LitAt(s, n2.next, <<".", "m", "c", "a">>) THEN None
              ELSE Some([rx |-> n1.text, ry |-> n2.text])

\* Regex::captures: the leftmost match anywhere in s
Captures(s) ==
    LET ps == {p \in 1..Len(s) : MatchAt(s, p) # None} IN
    IF ps = {} THEN None
    ELSE MatchAt(s, CHOOSE p \in ps : \A q \in ps : p <= q)

\* What extract_signs_from_mca does before it opens the file: "open" when
\* it goes on to the walk, "name_mismatch" and "empty_file" when it returns
\* with nothing, "panic" when an unwrap fails.
BeforeLoop(name, empty) ==
    IF ~IsSome(ToStr(name))
    THEN [outcome |-> "panic", panic |-> "unwrap on None: to_str"]
    ELSE LET caps == Captures(Unwrap(ToStr(name))) IN
         IF ~IsSome(caps) THEN [outcome |-> "name_mismatch", panic |-> NoPanic]
         ELSE IF ~IsSome(ParseI32(Unwrap(caps).rx))
         THEN [outcome |-> "panic", panic |-> "unwrap on Err: parse rx"]
         ELSE IF ~IsSome(ParseI32(Unwrap(caps).ry))
         THEN [outcome |-> "panic", panic |-> "unwrap on Err: parse ry"]
         ELSE IF empty THEN [outcome |-> "empty_file", panic |-> NoPanic]
         ELSE [outcome |-> "open", panic |-> NoPanic]

RegionFile(name, empty, entries) ==
    [name |-> name, empty |-> empty, entries |-> entries]

RECURSIVE ReadEntries(_, _, _, _)
ReadEntries(v, entries, s, b) ==
    IF entries = <<>> THEN Extracted(s, b, NoPanic)
    ELSE LET r == ProcessEntry(v, Head(entries), s, b) IN
         IF r.outcome = "panic" THEN Extracted(r.signs, r.books, r.panic)
         ELSE ReadEntries(v, Tail(entries), r.signs, r.books)

\* The whole work unit: what extract_signs_from_mca returns, or its panic.
ExtractSignsFromMca(file, v) ==
    LET b == BeforeLoop(file.name, file.empty) IN
    IF b.outcome = "open" THEN ReadEntries(v, file.entries, <<>>, <<>>)
    ELSE Extracted(<<>>, <<>>, b.panic)

----------------------------------------------------------------------------
(* Inputs.                                                                 *)

VersionIds == {1343, 2681, 2682, 2730, 2731, 3120}
VersionNames == {StrOld, "1.x"}
Versions == [id : VersionIds, name : VersionNames]

Minecraft == <<"m","i","n","e","c","r","a","f","t",":">>
IdOakSign == Minecraft \o <<"o","a","k","_","s","i","g","n">>
IdOakSignUpper == Minecraft \o <<"O","A","K","_","S","I","G","N">>
IdSign == <<"S","i","g","n">>
IdChest == Minecraft \o <<"c","h","e","s","t">>
IdFurnace == Minecraft \o <<"f","u","r","n","a","c","e">>
IdWrittenBook == Minecraft \o <<"w","r","i","t","t","e","n","_","b","o","o","k">>
IdWritableBook == Minecraft \o <<"w","r","i","t","a","b","l","e","_","b","o","o","k">>
IdEnchantedBook == Minecraft \o StrEnchantedBook
IdBook == Minecraft \o StrBook
IdWrittenBookKelvin ==
    Minecraft \o <<"w","r","i","t","t","e","n","_","b","o","o",KelvinSign>>

\* r.0.0.mca
NameRegion == FileName(TRUE, <<"r",".","0",".","0",".","m","c","a">>)
\* r.0.0.mca.bak
NameBackup == FileName(TRUE, NameRegion.chars \o <<".","b","a","k">>)
\* level.dat
NameLevelDat == FileName(TRUE, <<"l","e","v","e","l",".","d","a","t">>)
\* r.2147483648.0.mca
NameTooFarEast ==
    FileName(TRUE, <<"r",".","2","1","4","7","4","8","3","6","4","8",".","0",
                     ".","m","c","a">>)

NameCat ==
    { NameRegion, NameLevelDat, NameTooFarEast,
      \* r.-2147483648.2147483647.mca
      FileName(TRUE, <<"r",".","-","2","1","4","7","4","8","3","6","4","8",".",
                       "2","1","4","7","4","8","3","6","4","7",".","m","c","a">>),
      \* r.0.-2147483649.mca
      FileName(TRUE, <<"r",".","0",".","-","2","1","4","7","4","8","3","6","4","9",
                       ".","m","c","a">>),
      \* r.<U+0663>.0.mca
      FileName(TRUE, <<"r",".",ArabicIndicThree,".","0",".","m","c","a">>),
      \* r.0.0.mca with a byte after it that is no UTF-8
      FileName(FALSE, NameRegion.chars) }

\* A sign line: the text a save stores, raw (legacy) or as a JSON text
\* component with its optional extra list.
RawLine(t) == [json |-> FALSE, text |-> t, extra |-> None]
JsonLine(t, extra) == [json |-> TRUE, text |-> t, extra |-> extra]

PageHello == <<Section,"l","H","i",Section,"r">>
PagePlain == <<"o","k">>

\* Tags differ from item to item, so a book record tells the item it is from.
TagWritten == Book(Some(<<PageHello, PagePlain>>), Some("T"), Some("A"))
TagWritable == Book(Some(<<PagePlain>>), None, None)
TagNoPages == Book(None, Some("no pages"), None)
TagEnchanted == Book(Some(<<PagePlain>>), Some("of an enchanted_book"), None)
TagPlainBook == Book(Some(<<PagePlain>>), Some("of a minecraft:book"), None)
TagKelvin == Book(Some(<<PagePlain>>), Some("of a book spelt with U+212A"), None)

ItemCat ==
    { Item(IdWrittenBook, Some(TagWritten)),
      Item(IdWritableBook, Some(TagWritable)),
      Item(IdWritableBook, None),
      Item(IdWrittenBook, Some(TagNoPages)),
      Item(IdEnchantedBook, Some(TagEnchanted)),
      Item(IdBook, Some(TagPlainBook)),
      Item(IdWrittenBookKelvin, Some(TagKelvin)) }

ItemLists == SeqsUpTo(ItemCat, MaxItems)

BlockCoords == {<<0, 64, 0>>, <<-17, 5, 300>>}

SignLike(id, c, full) ==
    TileEntity(id, c[1], c[2], c[3],
               Some(JsonLine("a", None)), Some(JsonLine("b", Some(<<"c">>))),
               Some(RawLine("d")),
               IF full THEN Some(JsonLine("e", None)) ELSE None, None)

Container(id, c, items) ==
    TileEntity(id, c[1], c[2], c[3], None, None, None, None, items)

BlockEntityCat ==
    {SignLike(id, c, f) : id \in {IdOakSign, IdOakSignUpper, IdSign},
                          c \in BlockCoords, f \in BOOLEAN}
    \cup {Container(IdChest, c, Some(l)) : c \in BlockCoords, l \in ItemLists}
    \cup {Container(IdFurnace, c, None) : c \in BlockCoords}

PosCat == {<<a, a + 1, -a>> : a \in -MaxHalf..MaxHalf} \cup {<<1, 1>>}

EntityCat ==
    {Entity(p, None) : p \in PosCat}
    \cup {Entity(p, Some(i)) : p \in PosCat, i \in ItemCat}

LegacyPayload(tes, ents) == Some(Compound(Some(LevelOf(Some(tes), Some(ents))), None))
Payload1_17(tes) == Some(Compound(Some(LevelOf(Some(tes), None)), None))
Payload1_18(bes) == Some(Compound(None, Some(bes)))

BlockEntityLists ==
    {<<>>} \cup {<<be>> : be \in BlockEntityCat}
    \cup {<<SignLike(IdOakSign, <<0, 64, 0>>, TRUE), be>> :
              be \in {Container(IdChest, <<1, 2, 3>>, Some(<<i>>)) : i \in ItemCat}}

EntityLists == {<<>>} \cup {<<e>> : e \in EntityCat}

ChunkCat ==
    {None, Some(Compound(None, None))}
    \cup {LegacyPayload(tes, <<>>) : tes \in BlockEntityLists}
    \cup {LegacyPayload(<<>>, ents) : ents \in EntityLists}
    \cup {Payload1_17(tes) : tes \in BlockEntityLists}
    \cup {Payload1_18(bes) : bes \in BlockEntityLists}

----------------------------------------------------------------------------
(* SpecChunk: the extraction applied to one chunk payload.                 *)

NotRun == Outcome("none", "none", Extracted(<<>>, <<>>, NoPanic))

DriverIdle ==
    /\ save = <<>>
    /\ pc = "idle"
    /\ nsubmitted = 0
    /\ unit = <<>>
    /\ chSigns = <<>>
    /\ chBooks = <<>>
    /\ nrecv = 0
    /\ nwritten = 0
    /\ signs = <<>>
    /\ books = <<>>
    /\ signsFile = <<>>
    /\ booksFile = <<>>

WorkerIdle ==
    /\ wpc = "idle"
    /\ wi = 0
    /\ wsigns = <<>>
    /\ wbooks = <<>>
    /\ wlast = "none"
    /\ wseen = <<>>
    /\ wfile = [name |-> FileName(TRUE, <<>>), empty |-> TRUE]

ChunkIdle ==
    /\ chunk = None
    /\ cres = NotRun

PageIdle ==
    /\ page = <<>>
    /\ body = None

InitChunk ==
    /\ version \in Versions
    /\ chunk \in ChunkCat
    /\ cres = NotRun
    /\ DriverIdle
    /\ WorkerIdle
    /\ PageIdle

ChunkExtract ==
    /\ cres.outcome = "none"
    /\ cres' = ProcessChunk(version, chunk, <<>>, <<>>)
    /\ UNCHANGED <<version, chunk, driverVars, workerVars, pageVars>>

NextChunk == ChunkExtract

SpecChunk == InitChunk /\ [][NextChunk]_vars

----------------------------------------------------------------------------
(* SpecRegion: one work unit, one location entry at a time.  The entries   *)
(* are what the decoder reads from the file as it goes; the walk over the  *)
(* 32 x 32 table is cut to MaxEntries entries.                             *)

RegionSign == SignLike(IdOakSign, <<0, 64, 0>>, TRUE)
RegionChest ==
    Container(IdChest, <<1, 70, -2>>, Some(<<Item(IdWrittenBook, Some(TagWritten))>>))

RegionPayloads ==
    {None}
    \cup {LegacyPayload(l, <<>>) : l \in {<<RegionSign>>, <<RegionChest>>}}
    \cup {Payload1_17(l) : l \in {<<RegionSign>>, <<RegionChest>>}}
    \cup {Payload1_18(l) : l \in {<<RegionSign>>, <<RegionChest>>}}
    \cup {Payload1_18(<<Container(IdChest, <<1, 70, -2>>,
                                  Some(<<Item(IdWritableBook, None)>>))>>)}

EntryCat ==
    { Entry("header_eof", 0, Zlib, TRUE, None),
      Entry("ok", 0, Zlib, TRUE, None),
      Entry("length_eof", 1, Zlib, TRUE, None),
      Entry("compression_eof", 1, Zlib, TRUE, None),
      Entry("payload_eof", 1, Zlib, TRUE, None),
      Entry("length_zero", 1, Zlib, TRUE, None),
      Entry("ok", 1, 1, TRUE, None),
      Entry("ok", 1, Zlib, FALSE, None) }
    \cup {Entry("ok", 1, Zlib, TRUE, buf) : buf \in RegionPayloads}

InitRegion ==
    /\ version \in Versions
    /\ wpc = "start"
    /\ wi = 0
    /\ wsigns = <<>>
    /\ wbooks = <<>>
    /\ wlast = "none"
    /\ wseen = <<>>
    /\ wfile \in [name : NameCat, empty : BOOLEAN]
    /\ DriverIdle
    /\ ChunkIdle
    /\ PageIdle

WUnchanged == UNCHANGED <<version, driverVars, chunkVars, pageVars>>

\* to_str().unwrap() or parse::<i32>().unwrap() fails
WNamePanic ==
    /\ wpc = "start"
    /\ BeforeLoop(wfile.name, wfile.empty).outcome = "panic"
    /\ wpc' = "panicked"
    /\ wlast' = "panic"
    /\ UNCHANGED <<wi, wsigns, wbooks, wseen, wfile>>
    /\ WUnchanged

\* the file name does not match the pattern
WNameMismatch ==
    /\ wpc = "start"
    /\ BeforeLoop(wfile.name, wfile.empty).outcome = "name_mismatch"
    /\ wpc' = "returned"
    /\ wlast' = "name_mismatch"
    /\ UNCHANGED <<wi, wsigns, wbooks, wseen, wfile>>
    /\ WUnchanged

\* metadata.len() == 0
WEmptyFile ==
    /\ wpc = "start"
    /\ BeforeLoop(wfile.name, wfile.empty).outcome = "empty_file"
    /\ wpc' = "returned"
    /\ wlast' = "empty_file"
    /\ UNCHANGED <<wi, wsigns, wbooks, wseen, wfile>>
    /\ WUnchanged

WOpen ==
    /\ wpc = "start"
    /\ BeforeLoop(wfile.name, wfile.empty).outcome = "open"
    /\ wpc' = "loop"
    /\ UNCHANGED <<wi, wsigns, wbooks, wlast, wseen, wfile>>
    /\ WUnchanged

\* WVisit with a decode error treated like a failed expect (not the code)
WVisitDecodeFatal(e) ==
    LET r == ProcessEntry(version, e, wsigns, wbooks) IN
    /\ wi' = wi + 1
    /\ wsigns' = r.signs
    /\ wbooks' = r.books
    /\ wlast' = r.outcome
    /\ wseen' = Append(wseen, e)
    /\ UNCHANGED wfile
    /\ wpc' = IF r.outcome \in {"panic", "decode_error"} THEN "panicked" ELSE "loop"
    /\ WUnchanged

WVisit(e) ==
    LET r == ProcessEntry(version, e, wsigns, wbooks) IN
    /\ wi' = wi + 1
    /\ wsigns' = r.signs
    /\ wbooks' = r.books
    /\ wlast' = r.outcome
    /\ wseen' = Append(wseen, e)
    /\ UNCHANGED wfile
    /\ wpc' = IF r.outcome = "panic" THEN "panicked" ELSE "loop"
    /\ WUnchanged

WOutcome(e) == ProcessEntry(version, e, wsigns, wbooks).outcome
WInLoop == wpc = "loop" /\ wi < MaxEntries

\* the location entry has sector count 0
WSkipAbsent ==
    /\ WInLoop
    /\ \E e \in EntryCat : WOutcome(e) = "absent" /\ WVisit(e)

\* the compression byte is not 2
WSkipCompression ==
    /\ WInLoop
    /\ \E e \in EntryCat : WOutcome(e) = "unsupported_compression" /\ WVisit(e)

\* fastnbt::from_bytes returned Err
WDecodeError ==
    /\ WInLoop
    /\ \E e \in EntryCat : WOutcome(e) = "decode_error" /\ WVisit(e)

\* the chunk was decoded and walked
WExtract ==
    /\ WInLoop
    /\ \E e \in EntryCat : WOutcome(e) = "ok" /\ WVisit(e)

\* an expect or unwrap failed
WPanic ==
    /\ WInLoop
    /\ \E e \in EntryCat : WOutcome(e) = "panic" /\ WVisit(e)

WReturn ==
    /\ wpc = "loop"
    /\ wi = MaxEntries
    /\ wpc' = "returned"
    /\ UNCHANGED <<wi, wsigns, wbooks, wlast, wseen, wfile>>
    /\ WUnchanged

NextRegion ==
    \/ WNamePanic
    \/ WNameMismatch
    \/ WEmptyFile
    \/ WOpen
    \/ WSkipAbsent
    \/ WSkipCompression
    \/ WDecodeError
    \/ WExtract
    \/ WPanic
    \/ WReturn

SpecRegion == InitRegion /\ [][NextRegion]_vars

----------------------------------------------------------------------------
(* The book page normaliser.                                               *)

\* the replacements, in the order the code chains them
FormatCodes ==
    <<"k","l","L","m","M","n","N","o","O","r","R","a","A","b","B","c","C",
      "d","D","e","E","f","F","K","0","1","2","3","4","5","6","7","8","9">>

\* str::replace of the two-character pattern Section c by nothing
RECURSIVE ReplacePair(_, _)
ReplacePair(s, c) ==
    IF Len(s) < 2 THEN s
    ELSE IF s[1] = Section /\ s[2] = c THEN ReplacePair(SubSeq(s, 3, Len(s)), c)
    ELSE <<s[1]>> \o ReplacePair(Tail(s), c)

RECURSIVE ReplaceCodes(_, _)
ReplaceCodes(s, codes) ==
    IF codes = <<>> THEN s
    ELSE ReplaceCodes(ReplacePair(s, Head(codes)), Tail(codes))

RemoveSection(s) == SelectSeq(s, LAMBDA c : c # Section)

StripFormatting(p) == RemoveSection(ReplaceCodes(p, FormatCodes))

PageAlphabet == {Section, "k", "l", "K", "x"}
Pages == SeqsUpTo(PageAlphabet, MaxPageLen)

InitPage ==
    /\ version \in {[id |-> 1343, name |-> StrOld]}
    /\ page \in Pages
    /\ body = None
    /\ DriverIdle
    /\ WorkerIdle
    /\ ChunkIdle

WritePage ==
    /\ body = None
    /\ body' = Some(StripFormatting(page))
    /\ UNCHANGED <<version, page, driverVars, workerVars, chunkVars>>

NextPage == WritePage

SpecPage == InitPage /\ [][NextPage]_vars

----------------------------------------------------------------------------
(* The driver's sort: Vec::sort_by, a stable sort, under the comparator    *)
(* a.x.cmp(&b.x).then(a.z.cmp(&b.z)).then(a.y.cmp(&b.y)).                  *)

CmpInt(a, b) == IF a < b THEN "Less" ELSE IF a > b THEN "Greater" ELSE "Equal"
Then(o1, o2) == IF o1 = "Equal" THEN o2 ELSE o1

CmpByXYZ(a, b) == Then(Then(CmpInt(a.x, b.x), CmpInt(a.y, b.y)), CmpInt(a.z, b.z))

Cmp(a, b) == Then(Then(CmpInt(a.x, b.x), CmpInt(a.z, b.z)), CmpInt(a.y, b.y))

\* r goes behind every element it does not precede: equal elements keep
\* their order
RECURSIVE InsertSorted(_, _)
InsertSorted(r, s) ==
    IF s = <<>> THEN <<r>>
    ELSE IF Cmp(r, Head(s)) = "Less" THEN <<r>> \o s
    ELSE <<Head(s)>> \o InsertSorted(r, Tail(s))

RECURSIVE SortInto(_, _)
SortInto(acc, rest) ==
    IF rest = <<>> THEN acc
    ELSE SortInto(InsertSorted(Head(rest), acc), Tail(rest))

SortBy(v) == SortInto(<<>>, v)

----------------------------------------------------------------------------
(* The reporter.  A report file is the sequence of lines written to it.    *)

Line(kind, x, y, z, n, text) ==
    [kind |-> kind, x |-> x, y |-> y, z |-> z, n |-> n, text |-> text]

Written(lines, panic) == [lines |-> lines, panic |-> panic]

\* One "text: ..." line of a sign: the stored string as it is for an old
\* world, the text and the extra texts of the JSON component otherwise.
SignTextLine(v, t) ==
    IF ~IsSome(t) THEN Written(<<>>, "unwrap on None: sign text")
    ELSE IF v.name # StrOld
    THEN IF ~Unwrap(t).json THEN Written(<<>>, "unwrap on Err: serde_json")
         ELSE Written(<<Line("text", 0, 0, 0, 0,
                             <<Unwrap(t).text>> \o
                             (IF IsSome(Unwrap(t).extra)
                              THEN Unwrap(Unwrap(t).extra) ELSE <<>>))>>,
                      NoPanic)
    ELSE Written(<<Line("text", 0, 0, 0, 0, <<Unwrap(t)>>)>>, NoPanic)

RECURSIVE SignTextLines(_, _, _)
SignTextLines(v, texts, acc) ==
    IF texts = <<>> THEN Written(acc, NoPanic)
    ELSE LET w == SignTextLine(v, Head(texts)) IN
         IF w.panic # NoPanic THEN Written(acc, w.panic)
         ELSE SignTextLines(v, Tail(texts), acc \o w.lines)

\* the lines one sign adds to the signs report, up to a panic
WriteSignLines(v, sign) ==
    LET w == SignTextLines(v, <<sign.text1, sign.text2, sign.text3, sign.text4>>,
                           <<Line("sign location", sign.x, sign.y, sign.z, 0, <<>>)>>)
    IN  IF w.panic # NoPanic THEN w
        ELSE Written(w.lines \o <<Line("blank", 0, 0, 0, 0, <<>>)>>, NoPanic)

PageLines(pages) ==
    [i \in 1..(2 * Len(pages)) |->
        IF i % 2 = 1
        THEN Line("page", 0, 0, 0, (i + 1) \div 2, <<>>)
        ELSE Line("body", 0, 0, 0, 0, StripFormatting(pages[i \div 2]))]

\* the lines one book adds to the books report, up to a panic
WriteBookLines(b) ==
    LET head == << Line("book location", b.x, b.y, b.z, 0, <<>>),
                   Line("title", 0, 0, 0, 0,
                        IF IsSome(b.book.title) THEN b.book.title ELSE <<"unknown">>),
                   Line("author", 0, 0, 0, 0,
                        IF IsSome(b.book.author) THEN b.book.author ELSE <<"unknown">>) >>
    IN  IF ~IsSome(b.book.pages) THEN Written(head, "unwrap on None: book.pages")
        ELSE Written(head
                     \o <<Line("pages", 0, 0, 0, Len(Unwrap(b.book.pages)), <<>>)>>
                     \o PageLines(Unwrap(b.book.pages))
                     \o <<Line("blank", 0, 0, 0, 0, <<>>)>>,
                     NoPanic)

----------------------------------------------------------------------------
(* Spec: the driver.  The save is fixed when main starts; its chunks are   *)
(* laid out the way the world's version writes them.                       *)

DriverVersions ==
    { [id |-> 1343, name |-> StrOld],
      [id |-> 2730, name |-> "1.x"],
      [id |-> 2731, name |-> "1.x"] }

SavedChunk(v, tes, ents) ==
    Entry("ok", 1, Zlib, TRUE,
          IF ChosenAdapter(v) = "Chunk1_18" THEN Payload1_18(tes)
          ELSE IF ChosenAdapter(v) = "Chunk1_17" THEN Payload1_17(tes)
          ELSE LegacyPayload(tes, ents))

SavedSign(x, y, z, t) ==
    TileEntity(IdOakSign, x, y, z,
               Some(JsonLine(t, None)), Some(JsonLine(t, Some(<<"!">>))),
               Some(JsonLine(t, None)), Some(JsonLine(t, None)), None)

SavedChest(x, y, z, item) == Container(IdChest, <<x, y, z>>, Some(<<item>>))

AbsentEntry == Entry("ok", 0, Zlib, TRUE, None)

SaveFiles(v) ==
    { \* a file that is no region file
      RegionFile(NameLevelDat, FALSE, <<>>),
      \* a region file of length 0
      RegionFile(NameRegion, TRUE, <<>>),
      \* a file whose first number does not fit an i32
      RegionFile(NameTooFarEast, TRUE, <<>>),
      \* a region file cut inside its location table
      RegionFile(NameRegion, FALSE, <<Entry("header_eof", 0, Zlib, TRUE, None)>>),
      \* signs and books out of order
      RegionFile(NameRegion, FALSE,
          << AbsentEntry,
             SavedChunk(v, << SavedSign(1, 0, 0, "a"), SavedSign(0, 1, 0, "b"),
                              SavedSign(0, 0, 1, "c") >>, <<>>),
             SavedChunk(v, << SavedChest(1, 0, 0, Item(IdWritableBook, Some(TagWritable))),
                              SavedChest(0, 1, 0, Item(IdWrittenBook, Some(TagWritten))),
                              SavedChest(0, 0, 1, Item(IdWrittenBook, Some(TagWritten))) >>,
                        <<>>) >>),
      \* an older copy of a region: the same places, other contents
      RegionFile(NameBackup, FALSE,
          << SavedChunk(v, << SavedSign(0, 0, 1, "d"),
                              SavedChest(0, 1, 0, Item(IdWritableBook, Some(TagWritable))) >>,
                        <<>>) >>),
      \* a sign without Text4
      RegionFile(NameRegion, FALSE,
          << SavedChunk(v, <<SignLike(IdOakSign, <<0, 0, 0>>, FALSE)>>, <<>>) >>),
      \* a chest with an unused book and quill, which has no tag
      RegionFile(NameRegion, FALSE,
          << SavedChunk(v, <<SavedChest(0, 0, 0, Item(IdWritableBook, None))>>, <<>>) >>),
      \* a chest with a book whose tag has no pages
      RegionFile(NameRegion, FALSE,
          << SavedChunk(v, <<SavedChest(0, 0, 0, Item(IdWrittenBook, Some(TagNoPages)))>>,
                        <<>>) >>),
      \* a sign whose lines are raw strings
      RegionFile(NameRegion, FALSE,
          << SavedChunk(v, <<TileEntity(IdSign, 1, 1, 1, Some(RawLine("r")),
                                        Some(RawLine("r")), Some(RawLine("r")),
                                        Some(RawLine("r")), None)>>, <<>>) >>) }

Files == 1..Len(save)

Init ==
    /\ version \in DriverVersions
    /\ save \in SeqsUpTo(SaveFiles(version), MaxFiles)
    /\ pc = "submit"
    /\ nsubmitted = 0
    /\ unit = [f \in 1..Len(save) |-> "unsubmitted"]
    /\ chSigns = <<>>
    /\ chBooks = <<>>
    /\ nrecv = 0
    /\ nwritten = 0
    /\ signs = <<>>
    /\ books = <<>>
    /\ signsFile = <<>>
    /\ booksFile = <<>>
    /\ WorkerIdle
    /\ ChunkIdle
    /\ PageIdle

DUnchanged == UNCHANGED <<version, save, workerVars, chunkVars, pageVars>>

Active == {f \in Files : unit[f] \in {"running", "sent_signs"}}
Finished(f) == unit[f] \in {"done", "panicked"}

\* main: pool.execute for the next directory entry
Submit ==
    /\ pc = "submit"
    /\ nsubmitted < Len(save)
    /\ unit' = [unit EXCEPT ![nsubmitted + 1] = "queued"]
    /\ nsubmitted' = nsubmitted + 1
    /\ UNCHANGED <<pc, chSigns, chBooks, nrecv, nwritten, signs, books,
                   signsFile, booksFile>>
    /\ DUnchanged

\* main: the directory is exhausted, pool.join() is called
EndSubmit ==
    /\ pc = "submit"
    /\ nsubmitted = Len(save)
    /\ pc' = "join"
    /\ UNCHANGED <<nsubmitted, unit, chSigns, chBooks, nrecv, nwritten, signs,
                   books, signsFile, booksFile>>
    /\ DUnchanged

\* the pool: a free thread takes the oldest queued job
UnitStart(f) ==
    /\ f \in Files
    /\ unit[f] = "queued"
    /\ \A g \in Files : g < f => unit[g] # "queued"
    /\ Cardinality(Active) < NumThreads
    /\ unit' = [unit EXCEPT ![f] = "running"]
    /\ UNCHANGED <<pc, nsubmitted, chSigns, chBooks, nrecv, nwritten, signs,
                   books, signsFile, booksFile>>
    /\ DUnchanged

\* a job: extract_signs_from_mca returned, thread_tx.send(signs)
UnitSendSigns(f) ==
    /\ f \in Files
    /\ unit[f] = "running"
    /\ ExtractSignsFromMca(save[f], version).panic = NoPanic
    /\ chSigns' = Append(chSigns, ExtractSignsFromMca(save[f], version).signs)
    /\ unit' = [unit EXCEPT ![f] = "sent_signs"]
    /\ UNCHANGED <<pc, nsubmitted, chBooks, nrecv, nwritten, signs, books,
                   signsFile, booksFile>>
    /\ DUnchanged

\* a job: thread_tx_books.send(books)
UnitSendBooks(f) ==
    /\ f \in Files
    /\ unit[f] = "sent_signs"
    /\ chBooks' = Append(chBooks, ExtractSignsFromMca(save[f], version).books)
    /\ unit' = [unit EXCEPT ![f] = "done"]
    /\ UNCHANGED <<pc, nsubmitted, chSigns, nrecv, nwritten, signs, books,
                   signsFile, booksFile>>
    /\ DUnchanged

\* a job: extract_signs_from_mca panicked; the pool's thread unwinds, nothing
\* is sent, and the pool counts the job as over
UnitPanic(f) ==
    /\ f \in Files
    /\ unit[f] = "running"
    /\ ExtractSignsFromMca(save[f], version).panic # NoPanic
    /\ unit' = [unit EXCEPT ![f] = "panicked"]
    /\ UNCHANGED <<pc, nsubmitted, chSigns, chBooks, nrecv, nwritten, signs,
                   books, signsFile, booksFile>>
    /\ DUnchanged

\* Join without the wait for the pool (not the code)
JoinWithoutWait ==
    /\ pc = "join"
    /\ pc' = "recv_signs"
    /\ UNCHANGED <<nsubmitted, unit, chSigns, chBooks, nrecv, nwritten, signs,
                   books, signsFile, booksFile>>
    /\ DUnchanged

\* main: pool.join() returns once no job is queued or active
Join ==
    /\ pc = "join"
    /\ \A f \in Files : Finished(f)
    /\ pc' = "recv_signs"
    /\ UNCHANGED <<nsubmitted, unit, chSigns, chBooks, nrecv, nwritten, signs,
                   books, signsFile, booksFile>>
    /\ DUnchanged

\* main: rx.iter().take(number_of_files) yields one more message
RecvSigns ==
    /\ pc = "recv_signs"
    /\ nrecv < nsubmitted
    /\ nrecv < Len(chSigns)
    /\ signs' = signs \o chSigns[nrecv + 1]
    /\ nrecv' = nrecv + 1
    /\ UNCHANGED <<pc, nsubmitted, unit, chSigns, chBooks, nwritten, books,
                   signsFile, booksFile>>
    /\ DUnchanged

\* main: number_of_files messages were taken; signs.sort_by
SortSigns ==
    /\ pc = "recv_signs"
    /\ nrecv = nsubmitted
    /\ signs' = SortBy(signs)
    /\ pc' = "recv_books"
    /\ nrecv' = 0
    /\ UNCHANGED <<nsubmitted, unit, chSigns, chBooks, nwritten, books,
                   signsFile, booksFile>>
    /\ DUnchanged

\* main: rx_books.iter().take(number_of_files) yields one more message
RecvBooks ==
    /\ pc = "recv_books"
    /\ nrecv < nsubmitted
    /\ nrecv < Len(chBooks)
    /\ books' = books \o chBooks[nrecv + 1]
    /\ nrecv' = nrecv + 1
    /\ UNCHANGED <<pc, nsubmitted, unit, chSigns, chBooks, nwritten, signs,
                   signsFile, booksFile>>
    /\ DUnchanged

\* main: books.sort_by, then the signs report is created
SortBooks ==
    /\ pc = "recv_books"
    /\ nrecv = nsubmitted
    /\ books' = SortBy(books)
    /\ pc' = "write_signs"
    /\ UNCHANGED <<nsubmitted, unit, chSigns, chBooks, nrecv, nwritten, signs,
                   signsFile, booksFile>>
    /\ DUnchanged

\* main: one iteration of `for sign in signs`
WriteSign ==
    /\ pc = "write_signs"
    /\ nwritten < Len(signs)
    /\ WriteSignLines(version, signs[nwritten + 1]).panic = NoPanic
    /\ signsFile' = signsFile \o WriteSignLines(version, signs[nwritten + 1]).lines
    /\ nwritten' = nwritten + 1
    /\ UNCHANGED <<pc, nsubmitted, unit, chSigns, chBooks, nrecv, signs, books,
                   booksFile>>
    /\ DUnchanged

\* main: an unwrap in that iteration panics
WriteSignPanic ==
    /\ pc = "write_signs"
    /\ nwritten < Len(signs)
    /\ WriteSignLines(version, signs[nwritten + 1]).panic # NoPanic
    /\ signsFile' = signsFile \o WriteSignLines(version, signs[nwritten + 1]).lines
    /\ pc' = "panicked"
    /\ UNCHANGED <<nsubmitted, unit, chSigns, chBooks, nrecv, nwritten, signs,
                   books, booksFile>>
    /\ DUnchanged

\* main: the signs are written, the books report is created
CreateBooksFile ==
    /\ pc = "write_signs"
    /\ nwritten = Len(signs)
    /\ pc' = "write_books"
    /\ nwritten' = 0
    /\ UNCHANGED <<nsubmitted, unit, chSigns, chBooks, nrecv, signs, books,
                   signsFile, booksFile>>
    /\ DUnchanged

\* main: one iteration of `for book in books`
WriteBook ==
    /\ pc = "write_books"
    /\ nwritten < Len(books)
    /\ WriteBookLines(books[nwritten + 1]).panic = NoPanic
    /\ booksFile' = booksFile \o WriteBookLines(books[nwritten + 1]).lines
    /\ nwritten' = nwritten + 1
    /\ UNCHANGED <<pc, nsubmitted, unit, chSigns, chBooks, nrecv, signs, books,
                   signsFile>>
    /\ DUnchanged

\* main: book.pages.unwrap() panics
WriteBookPanic ==
    /\ pc = "write_books"
    /\ nwritten < Len(books)
    /\ WriteBookLines(books[nwritten + 1]).panic # NoPanic
    /\ booksFile' = booksFile \o WriteBookLines(books[nwritten + 1]).lines
    /\ pc' = "panicked"
    /\ UNCHANGED <<nsubmitted, unit, chSigns, chBooks, nrecv, nwritten, signs,
                   books, signsFile>>
    /\ DUnchanged

\* main: "done!"
Done ==
    /\ pc = "write_books"
    /\ nwritten = Len(books)
    /\ pc' = "done"
    /\ UNCHANGED <<nsubmitted, unit, chSigns, chBooks, nrecv, nwritten, signs,
                   books, signsFile, booksFile>>
    /\ DUnchanged

MainStep ==
    \/ Submit
    \/ EndSubmit
    \/ Join
    \/ RecvSigns
    \/ SortSigns
    \/ RecvBooks
    \/ SortBooks
    \/ WriteSign
    \/ WriteSignPanic
    \/ CreateBooksFile
    \/ WriteBook
    \/ WriteBookPanic
    \/ Done

UnitStep(f) ==
    \/ UnitStart(f)
    \/ UnitSendSigns(f)
    \/ UnitSendBooks(f)
    \/ UnitPanic(f)

Next == MainStep \/ \E f \in 1..MaxFiles : UnitStep(f)

Spec == Init /\ [][Next]_vars

\* Every thread that can take a step eventually does.
FairSpec ==
    /\ Spec
    /\ WF_vars(MainStep)
    /\ \A f \in 1..MaxFiles : WF_vars(UnitStep(f))

----------------------------------------------------------------------------
(* Properties.                                                             *)

\* C1: the adapter extract_signs_from_mca takes for a version descriptor is
\* Legacy (Chunk) when name = "old" or id <= 2681, Chunk1_17 when
\* name # "old" and 2681 < id <= 2730, Chunk1_18 when name # "old" and
\* id > 2730.
C1_AdapterSelection ==
    cres.outcome # "none" =>
        /\ cres.adapter = "Chunk"
               <=> (version.name = "old" \/ version.id <= 2681)
        /\ cres.adapter = "Chunk1_17"
               <=> (version.name # "old" /\ 2681 < version.id /\ version.id <= 2730)
        /\ cres.adapter = "Chunk1_18"
               <=> (version.name # "old" /\ version.id > 2730)

\* a chunk was processed for a modern world of id 2730, under Chunk1_17
C1_Witness ==
    /\ cres.outcome = "ok"
    /\ version.id = 2730
    /\ version.name # "old"
    /\ cres.adapter = "Chunk1_17"
    /\ Len(cres.signs) > 0

LinesOfKind(file, kind) == SelectSeq(file, LAMBDA l : l.kind = kind)

KeyLeq(a, b) ==
    \/ a.x < b.x
    \/ a.x = b.x /\ a.z < b.z
    \/ a.x = b.x /\ a.z = b.z /\ a.y <= b.y

InKeyOrder(s) == \A i \in 1..(Len(s) - 1) : KeyLeq(s[i], s[i + 1])

RECURSIVE Flatten(_)
Flatten(lists) == IF lists = <<>> THEN <<>> ELSE Head(lists) \o Flatten(Tail(lists))

\* C2: in the signs report and in the books report, any two records written
\* one after the other are in (x, z, y) order.
C2_OutputOrder ==
    /\ InKeyOrder(LinesOfKind(signsFile, "sign location"))
    /\ InKeyOrder(LinesOfKind(booksFile, "book location"))

\* both reports are complete, hold several records, and neither list was
\* in order as it was collected
C2_Witness ==
    /\ pc = "done"
    /\ Len(LinesOfKind(signsFile, "sign location")) >= 3
    /\ Len(LinesOfKind(booksFile, "book location")) >= 3
    /\ ~InKeyOrder(Flatten(chSigns))
    /\ ~InKeyOrder(Flatten(chBooks))

\* the reports of the run in which the work units deliver in directory order
InOrderSigns == Flatten([f \in 1..Len(save) |-> ExtractSignsFromMca(save[f], version).signs])
InOrderBooks == Flatten([f \in 1..Len(save) |-> ExtractSignsFromMca(save[f], version).books])

SignsReport(l) == Flatten([i \in 1..Len(l) |-> WriteSignLines(version, l[i]).lines])
BooksReport(l) == Flatten([i \in 1..Len(l) |-> WriteBookLines(l[i]).lines])

\* C3: for a fixed save the two reports are the same whatever the order in
\* which the work units deliver their lists.
C3_ReportsIndependentOfOrder ==
    pc = "done" =>
        /\ signsFile = SignsReport(SortBy(InOrderSigns))
        /\ booksFile = BooksReport(SortBy(InOrderBooks))

\* C4: every book a chunk yields has pages, and a book candidate without a
\* tag yields no record and no crash, under each adapter.
C4_BooksHavePages ==
    /\ \A i \in 1..Len(cres.books) : IsSome(cres.books[i].book.pages)
    /\ cres.panic # "unwrap on None: item.tag"

IsExcludedId(id) ==
    \/ EndsWith(ToLowercase(id), StrEnchantedBook)
    \/ EndsWith(ToLowercase(id), StrColonBook)

\* C5: no item whose lowercased id ends with "enchanted_book" or ":book" is
\* emitted as a book, from a container or from an item entity.
C5_NoExcludedItemAsBook ==
    \A i \in 1..Len(cres.books) :
        ~\E it \in ItemCat :
            /\ IsExcludedId(it.id)
            /\ IsSome(it.tag)
            /\ cres.books[i].book = Unwrap(it.tag)

HasFourLines(sign) ==
    /\ IsSome(sign.text1)
    /\ IsSome(sign.text2)
    /\ IsSome(sign.text3)
    /\ IsSome(sign.text4)

\* C6: every sign record the reporter is handed has its four lines.
C6_SignsHaveFourLines ==
    pc = "write_signs" => \A i \in 1..Len(signs) : HasFourLines(signs[i])

\* C7: when one work unit has failed and the others have run to completion,
\* main is not stuck: it has finished or can take its next step.
C7_DriverFinishesAfterFailedUnit ==
    ( /\ \E f \in Files : unit[f] = "panicked"
      /\ \E f \in Files : unit[f] = "done"
      /\ \A f \in Files : Finished(f)
      /\ pc \notin {"done", "panicked"} )
    => ENABLED MainStep

Floor(h) == h \div PosDen

PayloadEntities(buf) ==
    IF /\ IsSome(buf)
       /\ IsSome(Unwrap(buf).Level)
       /\ IsSome(Unwrap(Unwrap(buf).Level).Entities)
    THEN Unwrap(Unwrap(Unwrap(buf).Level).Entities)
    ELSE <<>>

\* C8: the book of an item entity that carries a written or writable book
\* is placed at the floor of the entity's Pos.
C8_EntityBookAtFloor ==
    ( /\ cres.outcome = "ok"
      /\ cres.adapter = "Chunk"
      /\ Len(PayloadEntities(chunk)) = 1
      /\ IsSome(PayloadEntities(chunk)[1].item)
      /\ IsBookItem(Unwrap(PayloadEntities(chunk)[1].item).id)
      /\ Len(cres.books) = 1 )
    => LET pos == PayloadEntities(chunk)[1].pos IN
       /\ cres.books[1].x = Floor(pos[1])
       /\ cres.books[1].y = Floor(pos[2])
       /\ cres.books[1].z = Floor(pos[3])

IsFormatChar(c) ==
    c \in {"k","l","m","n","o","r","K","L","M","N","O","R",
           "0","1","2","3","4","5","6","7","8","9",
           "a","b","c","d","e","f","A","B","C","D","E","F"}

\* the page without its occurrences of Section followed by a format character
RECURSIVE WithoutCodes(_)
WithoutCodes(s) ==
    IF Len(s) < 2 THEN s
    ELSE IF s[1] = Section /\ IsFormatChar(s[2]) THEN WithoutCodes(SubSeq(s, 3, Len(s)))
    ELSE <<s[1]>> \o WithoutCodes(Tail(s))

\* C9: the body written for a page is the page without its formatting codes
\* and then without its remaining Section characters, nothing else removed.
C9_BodyIsPageWithoutCodes ==
    IsSome(body) =>
        /\ Unwrap(body) = RemoveSection(WithoutCodes(page))
        /\ \A i \in 1..Len(Unwrap(body)) : Unwrap(body)[i] # Section

PayloadBlockEntities(buf, adapter) ==
    IF adapter = "Chunk1_18" THEN Unwrap(Unwrap(buf).block_entities)
    ELSE Unwrap(Unwrap(Unwrap(buf).Level).TileEntities)

\* C10: under every adapter a block entity is collected as a sign exactly
\* when its lowercased id ends with "sign".
C10_SignIffLowercaseIdEndsWithSign ==
    cres.outcome = "ok" =>
        \A i \in 1..Len(PayloadBlockEntities(chunk, cres.adapter)) :
            LET be == PayloadBlockEntities(chunk, cres.adapter)[i] IN
            (\E j \in 1..Len(cres.signs) : cres.signs[j] = be)
                <=> EndsWith(ToLowercase(be.id), StrSign)

----------------------------------------------------------------------------
(* The region decoder, one location entry at a time (SpecRegion).          *)

\* the payload of entry e does not decode into the schema version v selects
DecodeFails(v, e) == ProcessEntry(v, e, <<>>, <<>>).outcome = "decode_error"

\* the entries read so far without those whose payload does not decode
OtherChunks ==
    LET Decodes(e) == ~DecodeFails(version, e) IN SelectSeq(wseen, Decodes)

\* C11: under every adapter a chunk whose payload fails to decode adds no
\* record and does not end the walk: as long as the work unit runs, and when
\* it returns, its signs and books are exactly those of the other chunks
\* read, the ones before and the ones after the bad chunk, in order.
C11_DecodeErrorSkipsOnlyThatChunk ==
    /\ wlast = "decode_error" => wpc \in {"loop", "returned"}
    /\ (wpc \in {"loop", "returned"} /\ wseen # <<>>) =>
           LET r == ReadEntries(version, OtherChunks, <<>>, <<>>) IN
           /\ r.panic = NoPanic
           /\ wsigns = r.signs
           /\ wbooks = r.books

\* a work unit returned after a chunk with a sign, a chunk that failed to
\* decode and a chunk with a book, in that order
C11_Witness ==
    /\ wpc = "returned"
    /\ \E i, j, k \in 1..Len(wseen) :
          /\ i < j
          /\ j < k
          /\ Len(ProcessEntry(version, wseen[i], <<>>, <<>>).signs) = 1
          /\ DecodeFails(version, wseen[j])
          /\ Len(ProcessEntry(version, wseen[k], <<>>, <<>>).books) = 1
    /\ Len(wsigns) = 1
    /\ Len(wbooks) = 1

\* the chunk of entry e is present but cannot be read: the file ends before
\* its length, its compression byte or the end of its payload
ReadFails(e) ==
    /\ e.sectors # 0
    /\ e.io \in {"length_eof", "compression_eof", "payload_eof"}

\* the entries read so far without those whose chunk cannot be read
ReadableChunks ==
    LET Readable(e) == ~ReadFails(e) IN SelectSeq(wseen, Readable)

\* C12: a chunk whose length, compression byte or payload cannot be read is
\* skipped and nothing else: the walk goes on to the remaining entries and
\* the work unit holds, and returns, the records of the chunks it could read.
C12_ReadFailureSkipsOnlyThatChunk ==
    (\E i \in 1..Len(wseen) : ReadFails(wseen[i])) =>
        /\ wpc \in {"loop", "returned"}
        /\ LET r == ReadEntries(version, ReadableChunks, <<>>, <<>>) IN
           /\ wsigns = r.signs
           /\ wbooks = r.books

----------------------------------------------------------------------------
(* The driver's barrier (Spec).                                            *)

\* main has sorted the signs vector (and whatever follows it)
SortedOrLater == pc \in {"recv_books", "write_signs", "write_books", "done", "panicked"}

\* C13: nothing is sorted or written before every submitted work unit is
\* over: once main has sorted the signs, and so when it sorts the books and
\* whenever a report holds a line, every region file was submitted and the
\* work unit of each has completed.
C13_NoOutputBeforeAllUnitsDone ==
    (SortedOrLater \/ signsFile # <<>> \/ booksFile # <<>>) =>
        /\ nsubmitted = Len(save)
        /\ \A f \in Files : Finished(f)

\* both reports were written from the records of several work units
C13_Witness ==
    /\ pc = "done"
    /\ Len(save) = MaxFiles
    /\ signsFile # <<>>
    /\ booksFile # <<>>
    /\ \A f \in Files : unit[f] = "done"

====
